---- MODULE Spec2Model ----
(***************************************************************************)
(* Model of kbuhist.preprocess: the Chunker (preprocess_chunk.py) and the  *)
(* Quality Filter (word_cleaner.py).                                       *)
(*                                                                         *)
(* A Python str is a sequence of one-character strings.  The for loops of  *)
(* the chunking strategies advance one sentence per step; the workers of   *)
(* the parallel strategy interleave their steps freely.                    *)
(***************************************************************************)
EXTENDS Integers, Sequences, FiniteSets, TLC

\* ------------------------------------------------------------------ bounds
MaxLen == 4
MaxBudget == 2
MaxCpu == 2
MaxFilterLen == 2
MaxPasses == 3

\* ------------------------------------------------------- program constants
\* chunker_function_: `if len(sent_list) < 10`
MinChunkLen == 10
\* Word_Cleaner.__init__ defaults, in hundredths: 0.65, 0.7
DefaultCountingAvg == 65
DefaultNumberRatio == 70
DefaultShortWordThreshold == 7
\* a second setting of short_word_threshold, below the length of short sentences
LowShortWordThreshold == 2

\* Python's None in an integer field, and in a field holding a name
None == 0 - 1
NoName == "None"

\* ------------------------------------------------------------- Python str
IsSpace(c) == c = " "
IsDigit(c) == c \in {"0", "1", "2", "3", "4", "5", "6", "7", "8", "9"}

RECURSIVE SplitRec(_, _, _)
SplitRec(s, cur, acc) ==
    IF s = <<>>
    THEN IF cur = <<>> THEN acc ELSE Append(acc, cur)
    ELSE IF IsSpace(Head(s))
         THEN SplitRec(Tail(s), <<>>, IF cur = <<>> THEN acc ELSE Append(acc, cur))
         ELSE SplitRec(Tail(s), Append(cur, Head(s)), acc)

\* str.split(): the maximal runs of non-whitespace characters, in order
split(s) == SplitRec(s, <<>>, <<>>)

RECURSIVE lstrip(_)
lstrip(s) == IF s # <<>> /\ IsSpace(Head(s)) THEN lstrip(Tail(s)) ELSE s

RECURSIVE rstrip(_)
rstrip(s) ==
    IF s # <<>> /\ IsSpace(s[Len(s)]) THEN rstrip(SubSeq(s, 1, Len(s) - 1)) ELSE s

\* str.strip()
strip(s) == rstrip(lstrip(s))

RECURSIVE join(_)
\* " ".join(list)
join(l) ==
    IF l = <<>> THEN <<>>
    ELSE IF Len(l) = 1 THEN l[1]
    ELSE l[1] \o <<" ">> \o join(Tail(l))

\* ------------------------------------------------------ external tokenizer
Tokenizers == {"word", "char", "parity"}

RECURSIVE CountNonSpace(_)
CountNonSpace(s) ==
    IF s = <<>> THEN 0
    ELSE (IF IsSpace(Head(s)) THEN 0 ELSE 1) + CountNonSpace(Tail(s))

\* len(self.tokenizer.tokenize(text)) for three deterministic tokenizers: one
\* token per whitespace-delimited word, one token per non-blank character,
\* and a non-monotone one (two tokens for a text of odd length, none otherwise)
tokenize(tok, text) ==
    CASE tok = "word" -> Len(split(text))
      [] tok = "char" -> CountNonSpace(text)
      [] OTHER -> 2 * (Len(text) % 2)

\* ------------------------------------------------------------------ state
VARIABLES
    sent_list,          \* the argument of the call
    seq_length,         \* self.seq_length (None when unset)
    token_seq_length,   \* self.token_seq_length (None when unset)
    parallelize,        \* self.parallelize
    cpu_count,          \* self.cpu_count
    tokenizer,          \* self.tokenizer
    pc,                 \* idle, run, done (returned) or error (raised)
    method,             \* the strategy entered, or the fallback
    called,             \* the method the caller invoked
    frames,             \* the running invocations of a strategy, one per slice
    finished,           \* the workers in the order they returned
    result,             \* the value returned to the caller
    f_input,            \* Quality Filter: the list first handed in
    f_list,             \* Quality Filter: the current list
    f_prev,             \* Quality Filter: the list before the last pass
    f_last,             \* Quality Filter: the last two passes applied, newest first
    counting_avg,       \* self.counting_avg, in hundredths
    number_ratio,       \* self.number_ratio, in hundredths
    short_word_threshold \* self.short_word_threshold

chunk_vars ==
    <<sent_list, seq_length, token_seq_length, parallelize, cpu_count, tokenizer,
      pc, method, called, frames, finished, result>>

filter_vars ==
    <<f_input, f_list, f_prev, f_last, counting_avg, number_ratio,
      short_word_threshold>>

vars == <<chunk_vars, filter_vars>>

\* ------------------------------------------------------------ the inputs
\* the sentences of the chunker's inputs: "", "a", " a" and "a a"
Sentences == {<<>>, <<"a">>, <<" ", "a">>, <<"a", " ", "a">>}

PadSentence == <<"a">>

ShortInputs == UNION {[1..n -> Sentences] : n \in 0..MaxLen}

\* lists around the dispatch threshold: one free sentence, then padding
LongInputs ==
    {[i \in 1..n |-> IF i = 1 THEN s ELSE PadSentence] :
        s \in Sentences, n \in {MinChunkLen - 1, MinChunkLen}}

\* ------------------------------------------------- the strategies' loops
\* temp_sent, temp_sent_list and temp_new_chunk_list are the locals of the
\* source.  lo, snaps and prov are history: the input positions the
\* accumulator, each snapshot and each emitted chunk were built from.
NewFrame(sents, off) ==
    [sents |-> sents, off |-> off, i |-> 0,
     temp_sent |-> <<>>, lo |-> off + 1,
     temp_sent_list |-> <<>>, snaps |-> <<>>,
     temp_new_chunk_list |-> <<>>, prov |-> <<>>,
     status |-> "run"]

\* mutant of WordOverflow: >= for >
WordOverflowOrEqual(acc, budget) == Len(split(acc)) >= budget

\* len(temp_sent.split()) > self.seq_length
WordOverflow(acc, budget) == Len(split(acc)) > budget

\* one iteration of the loop of chunk_based_on_seq_len
WordStep(f, budget) ==
    LET sent == f.sents[f.i + 1]
        pos  == f.off + f.i + 1
        acc  == f.temp_sent \o <<" ">> \o sent
    IN  IF WordOverflow(acc, budget)
        THEN [f EXCEPT !.i = @ + 1,
                       !.temp_sent = <<>>,
                       !.lo = pos + 1,
                       !.temp_new_chunk_list = Append(@, strip(acc)),
                       !.prov = Append(@, [lo |-> f.lo, hi |-> pos, trig |-> pos])]
        ELSE [f EXCEPT !.i = @ + 1, !.temp_sent = acc]

\* one iteration of the loop of prev_chunk_based_on_token_seq_len;
\* temp_sent_list[-2] raises IndexError on a list of one element
TokenStep(f, budget, tok) ==
    LET sent  == f.sents[f.i + 1]
        pos   == f.off + f.i + 1
        acc   == f.temp_sent \o <<" ">> \o sent
        hist  == Append(f.temp_sent_list, strip(acc))
        snaps == Append(f.snaps, [lo |-> f.lo, hi |-> pos])
        n     == Len(hist)
        g     == [f EXCEPT !.i = @ + 1, !.temp_sent = acc,
                           !.temp_sent_list = hist, !.snaps = snaps]
    IN  IF tokenize(tok, hist[n]) > budget
        THEN IF n < 2
             THEN [g EXCEPT !.status = "err"]
             ELSE [g EXCEPT !.temp_sent = <<>>,
                            !.lo = pos + 1,
                            !.temp_new_chunk_list = Append(@, hist[n - 1]),
                            !.prov = Append(@, [lo |-> snaps[n - 1].lo,
                                                hi |-> snaps[n - 1].hi,
                                                trig |-> pos])]
        ELSE g

LoopDone(f) == f.status = "run" /\ f.i = Len(f.sents)

\* mutant of LoopReturn: what is left in the accumulator is flushed as a chunk
LoopReturnFlush(f) ==
    [f EXCEPT !.status = "ret",
              !.temp_new_chunk_list =
                  IF strip(f.temp_sent) # <<>> THEN Append(@, strip(f.temp_sent)) ELSE @]

\* return temp_new_chunk_list
LoopReturn(f) == [f EXCEPT !.status = "ret"]

RECURSIVE RunWord(_, _)
RunWord(f, budget) ==
    IF LoopDone(f) THEN LoopReturn(f) ELSE RunWord(WordStep(f, budget), budget)

RECURSIVE RunToken(_, _, _)
RunToken(f, budget, tok) ==
    IF f.status = "err" THEN f
    ELSE IF LoopDone(f) THEN LoopReturn(f)
    ELSE RunToken(TokenStep(f, budget, tok), budget, tok)

\* the methods as functions of their argument: the frame at return (or at
\* the IndexError), whose temp_new_chunk_list is the value returned
chunk_based_on_seq_len(sents) == RunWord(NewFrame(sents, 0), seq_length)

prev_chunk_based_on_token_seq_len(sents, off) ==
    RunToken(NewFrame(sents, off), token_seq_length, tokenizer)

\* np.array_split(sent_list, n): n contiguous slices, the first len % n of
\* them one element longer
SliceStart(len, n, k) ==
    (k - 1) * (len \div n) + (IF k - 1 < len % n THEN k - 1 ELSE len % n)

array_split(l, n) ==
    [k \in 1..n |->
        SubSeq(l, SliceStart(Len(l), n, k) + 1, SliceStart(Len(l), n, k + 1))]

RECURSIVE concatenate(_)
\* np.concatenate(lists).ravel().tolist()
concatenate(ls) ==
    IF ls = <<>> THEN <<>> ELSE Head(ls) \o concatenate(Tail(ls))

StrResult(s) == [kind |-> "str", val |-> s]
ListResult(l) == [kind |-> "list", val |-> l]
NoResult == [kind |-> "none", val |-> <<>>]

\* ------------------------------------------------------------ the Chunker
WORD == "chunk_based_on_seq_len"
TOKEN == "prev_chunk_based_on_token_seq_len"
PARALLEL == "parallel_chunker_prev_chunk_based_on_token_seq_len"
FALLBACK == "join"

\* mutant of chunker_function_: <= for <
chunker_function_inclusive(l) ==
    IF Len(l) <= MinChunkLen THEN FALLBACK
    ELSE IF seq_length = None
         THEN IF parallelize THEN PARALLEL ELSE TOKEN
         ELSE WORD

\* the branch chunker_function_ takes
chunker_function_(l) ==
    IF Len(l) < MinChunkLen THEN FALLBACK
    ELSE IF seq_length = None
         THEN IF parallelize THEN PARALLEL ELSE TOKEN
         ELSE WORD

\* the slices handed to the workers, each with its offset in sent_list
Slices(l, n) ==
    [k \in 1..n |-> NewFrame(array_split(l, n)[k], SliceStart(Len(l), n, k))]

\* mutant of Gather: the lists are concatenated as the workers return
GatherAsCompleted(fs, order) ==
    concatenate([j \in 1..Len(order) |-> fs[order[j]].temp_new_chunk_list])

\* the value parallel_chunker_prev_chunk_based_on_token_seq_len returns from
\* the workers' frames fs, order being the order in which the workers returned
Gather(fs, order) ==
    concatenate([k \in 1..Len(fs) |-> fs[k].temp_new_chunk_list])

Enter(m) ==
    /\ pc' = "run"
    /\ method' = m
    /\ frames' = IF m = PARALLEL
                 THEN Slices(sent_list, cpu_count)
                 ELSE <<NewFrame(sent_list, 0)>>
    /\ UNCHANGED <<finished, result>>

Config == <<sent_list, seq_length, token_seq_length, parallelize, cpu_count, tokenizer>>

Call_chunker_function_ ==
    /\ pc = "idle"
    /\ called' = "chunker_function_"
    /\ IF chunker_function_(sent_list) = FALLBACK
       THEN /\ pc' = "done"
            /\ method' = FALLBACK
            /\ result' = StrResult(join(sent_list))
            /\ UNCHANGED <<frames, finished>>
       ELSE Enter(chunker_function_(sent_list))
    /\ UNCHANGED <<Config, filter_vars>>

Call_chunk_based_on_seq_len ==
    /\ pc = "idle"
    /\ seq_length # None
    /\ called' = WORD
    /\ Enter(WORD)
    /\ UNCHANGED <<Config, filter_vars>>

Call_prev_chunk_based_on_token_seq_len ==
    /\ pc = "idle"
    /\ token_seq_length # None
    /\ called' = TOKEN
    /\ Enter(TOKEN)
    /\ UNCHANGED <<Config, filter_vars>>

Call_parallel_chunker ==
    /\ pc = "idle"
    /\ token_seq_length # None
    /\ called' = PARALLEL
    /\ Enter(PARALLEL)
    /\ UNCHANGED <<Config, filter_vars>>

WordLoop ==
    /\ pc = "run"
    /\ method = WORD
    /\ ~LoopDone(frames[1])
    /\ frames' = <<WordStep(frames[1], seq_length)>>
    /\ UNCHANGED <<Config, pc, method, called, finished, result, filter_vars>>

WordReturn ==
    /\ pc = "run"
    /\ method = WORD
    /\ LoopDone(frames[1])
    /\ frames' = <<LoopReturn(frames[1])>>
    /\ result' = ListResult(frames'[1].temp_new_chunk_list)
    /\ pc' = "done"
    /\ UNCHANGED <<Config, method, called, finished, filter_vars>>

TokenLoop ==
    /\ pc = "run"
    /\ method = TOKEN
    /\ ~LoopDone(frames[1])
    /\ frames' = <<TokenStep(frames[1], token_seq_length, tokenizer)>>
    /\ pc' = IF frames'[1].status = "err" THEN "error" ELSE pc
    /\ UNCHANGED <<Config, method, called, finished, result, filter_vars>>

TokenReturn ==
    /\ pc = "run"
    /\ method = TOKEN
    /\ LoopDone(frames[1])
    /\ frames' = <<LoopReturn(frames[1])>>
    /\ result' = ListResult(frames'[1].temp_new_chunk_list)
    /\ pc' = "done"
    /\ UNCHANGED <<Config, method, called, finished, filter_vars>>

\* mutant of WorkerStep: the workers are handed the word-count strategy
WorkerStepWord(f) == WordStep(f, token_seq_length)

\* delayed(self.prev_chunk_based_on_token_seq_len)(sent_list): an iteration
\* of the strategy a worker runs on its slice
WorkerStep(f) == TokenStep(f, token_seq_length, tokenizer)

WorkerLoop(k) ==
    /\ pc = "run"
    /\ method = PARALLEL
    /\ frames[k].status = "run"
    /\ ~LoopDone(frames[k])
    /\ frames' = [frames EXCEPT ![k] = WorkerStep(@)]
    /\ UNCHANGED <<Config, pc, method, called, finished, result, filter_vars>>

WorkerReturn(k) ==
    /\ pc = "run"
    /\ method = PARALLEL
    /\ LoopDone(frames[k])
    /\ frames' = [frames EXCEPT ![k] = LoopReturn(@)]
    /\ finished' = Append(finished, k)
    /\ UNCHANGED <<Config, pc, method, called, result, filter_vars>>

ParallelReturn ==
    /\ pc = "run"
    /\ method = PARALLEL
    /\ \A k \in 1..Len(frames) : frames[k].status = "ret"
    /\ result' = ListResult(Gather(frames, finished))
    /\ pc' = "done"
    /\ UNCHANGED <<Config, method, called, frames, finished, filter_vars>>

\* a worker's IndexError is re-raised in the caller
ParallelRaise ==
    /\ pc = "run"
    /\ method = PARALLEL
    /\ \E k \in 1..Len(frames) : frames[k].status = "err"
    /\ pc' = "error"
    /\ UNCHANGED <<Config, method, called, frames, finished, result, filter_vars>>

FilterIdle ==
    /\ f_input = <<>>
    /\ f_list = <<>>
    /\ f_prev = <<>>
    /\ f_last = <<>>
    /\ counting_avg = DefaultCountingAvg
    /\ number_ratio = DefaultNumberRatio
    /\ short_word_threshold = DefaultShortWordThreshold

ChunkIdle ==
    /\ sent_list = <<>>
    /\ seq_length = None
    /\ token_seq_length = None
    /\ parallelize = FALSE
    /\ cpu_count = 1
    /\ tokenizer = NoName
    /\ pc = "idle"
    /\ method = NoName
    /\ called = NoName
    /\ frames = <<>>
    /\ finished = <<>>
    /\ result = NoResult

\* seq_length and token_seq_length are alternatives: one of them is set
ChunkInit ==
    /\ sent_list \in ShortInputs \cup LongInputs
    /\ \/ /\ seq_length \in 0..MaxBudget
          /\ token_seq_length = None
          /\ tokenizer = NoName
       \/ /\ seq_length = None
          /\ token_seq_length \in 0..MaxBudget
          /\ tokenizer \in Tokenizers
    /\ parallelize \in BOOLEAN
    /\ cpu_count \in 1..MaxCpu
    /\ pc = "idle"
    /\ method = NoName
    /\ called = NoName
    /\ frames = <<>>
    /\ finished = <<>>
    /\ result = NoResult

Init == ChunkInit /\ FilterIdle

Next ==
    \/ Call_chunker_function_
    \/ Call_chunk_based_on_seq_len
    \/ Call_prev_chunk_based_on_token_seq_len
    \/ Call_parallel_chunker
    \/ WordLoop
    \/ WordReturn
    \/ TokenLoop
    \/ TokenReturn
    \/ \E k \in 1..MaxCpu : k <= Len(frames) /\ WorkerLoop(k)
    \/ \E k \in 1..MaxCpu : k <= Len(frames) /\ WorkerReturn(k)
    \/ ParallelReturn
    \/ ParallelRaise

Spec == Init /\ [][Next]_vars

\* ------------------------------------------------------ the Quality Filter
W1 == <<"a">>
W2 == <<"a", "b">>
D1 == <<"1">>

\* "", "ab ab", "a a a", "a  a a", "ab 1", "ab ab 1", seven one-letter
\* words, and "1 1 1 1 1 1 ab"
FilterSentences ==
    {<<>>,
     join(<<W2, W2>>),
     join(<<W1, W1, W1>>),
     join(<<W1, <<>>, W1, W1>>),
     join(<<W2, D1>>),
     join(<<W2, W2, D1>>),
     join(<<W1, W1, W1, W1, W1, W1, W1>>),
     join(<<D1, D1, D1, D1, D1, D1, W2>>)}

FilterInputs == UNION {[1..n -> FilterSentences] : n \in 0..MaxFilterLen}

IsLong(word) == Len(word) > 1

\* counter_word_length["long"]
CountLong(ws) == Cardinality({i \in 1..Len(ws) : IsLong(ws[i])})

\* re.search(r"\d", inputString)
_has_numbers(inputString) == \E i \in 1..Len(inputString) : IsDigit(inputString[i])

\* counter_word_length["digit"]
CountDigit(ws) == Cardinality({i \in 1..Len(ws) : _has_numbers(ws[i])})

\* counter_avg > self.counting_avg, with
\*   counter_ratio     = (long + 0.5) / (short + 0.001)
\*   counter_ratio_len = 1 - short / (len(splitted_sent) + 0.1)
\*   counter_avg       = (counter_ratio + counter_ratio_len) / 2
\* cleared of its denominators (1000 short + 1 and 10 len + 1, both positive);
\* the threshold is in hundredths
AvgAbove(long, short, len, avg100) ==
    100 * (1000 * long + 500) * (10 * len + 1)
      + 100 * (1000 * short + 1) * (10 * len + 1)
      - 1000 * short * (1000 * short + 1)
    > 2 * avg100 * (1000 * short + 1) * (10 * len + 1)

\* mutant of LengthAppend: `if` for `elif`, so a sentence can be appended twice
LengthAppendBoth(sent) ==
    LET splitted_sent == split(sent)
        long  == CountLong(splitted_sent)
        short == Len(splitted_sent) - long
    IN  (IF AvgAbove(long, short, Len(splitted_sent), counting_avg)
         THEN <<sent>> ELSE <<>>)
        \o (IF Len(splitted_sent) < short_word_threshold THEN <<sent>> ELSE <<>>)

\* what one iteration of Pass A appends to new_sent_list
LengthAppend(sent) ==
    LET splitted_sent == split(sent)
        long  == CountLong(splitted_sent)
        short == Len(splitted_sent) - long
    IN  IF AvgAbove(long, short, Len(splitted_sent), counting_avg)
        THEN <<sent>>
        ELSE IF Len(splitted_sent) < short_word_threshold
             THEN <<sent>>
             ELSE <<>>

\* number_ratio < self.number_ratio, with
\*   number_ratio = digit / (not_digit + 0.01)
\* cleared of its denominator; the threshold is in hundredths
RatioBelow(digit, not_digit, ratio100) ==
    100 * 100 * digit < ratio100 * (100 * not_digit + 1)

\* what one iteration of Pass B appends to new_sent_list
NumberAppend(sent) ==
    IF ~_has_numbers(sent)
    THEN <<sent>>
    ELSE LET splitted_sent == split(sent)
             digit == CountDigit(splitted_sent)
             not_digit == Len(splitted_sent) - digit
         IN  IF RatioBelow(digit, not_digit, number_ratio) THEN <<sent>> ELSE <<>>

RECURSIVE counting_length_of_letters_and_if_to_many_remove(_)
\* Pass A
counting_length_of_letters_and_if_to_many_remove(l) ==
    IF l = <<>> THEN <<>>
    ELSE LengthAppend(Head(l))
           \o counting_length_of_letters_and_if_to_many_remove(Tail(l))

RECURSIVE counting_sequence_length_of_numbers(_)
\* Pass B
counting_sequence_length_of_numbers(l) ==
    IF l = <<>> THEN <<>>
    ELSE NumberAppend(Head(l)) \o counting_sequence_length_of_numbers(Tail(l))

clean_pipe(l) ==
    counting_sequence_length_of_numbers(
        counting_length_of_letters_and_if_to_many_remove(l))

\* the caller hands the current list to a pass and keeps what it returns
PassA ==
    /\ Len(f_last) < MaxPasses
    /\ f_prev' = f_list
    /\ f_list' = counting_length_of_letters_and_if_to_many_remove(f_list)
    /\ f_last' = <<"A">> \o f_last
    /\ UNCHANGED <<f_input, counting_avg, number_ratio, short_word_threshold,
                   chunk_vars>>

PassB ==
    /\ Len(f_last) < MaxPasses
    /\ f_prev' = f_list
    /\ f_list' = counting_sequence_length_of_numbers(f_list)
    /\ f_last' = <<"B">> \o f_last
    /\ UNCHANGED <<f_input, counting_avg, number_ratio, short_word_threshold,
                   chunk_vars>>

CleanPipe ==
    /\ Len(f_last) < MaxPasses
    /\ f_prev' = f_list
    /\ f_list' = clean_pipe(f_list)
    /\ f_last' = <<"pipe">> \o f_last
    /\ UNCHANGED <<f_input, counting_avg, number_ratio, short_word_threshold,
                   chunk_vars>>

FilterInit ==
    /\ f_input \in FilterInputs
    /\ f_list = f_input
    /\ f_prev = f_input
    /\ f_last = <<>>
    /\ counting_avg = DefaultCountingAvg
    /\ number_ratio = DefaultNumberRatio
    /\ short_word_threshold \in {DefaultShortWordThreshold, LowShortWordThreshold}

InitFilter == FilterInit /\ ChunkIdle

NextFilter == PassA \/ PassB \/ CleanPipe

SpecFilter == InitFilter /\ [][NextFilter]_vars

\* ================================================================ claims
\* the frame of a sequential strategy
Run == frames[1]

Sequential(m) == method = m /\ pc # "idle"

Raised == [kind |-> "raise", val |-> <<>>]

\* what the call came to: the value returned, or the exception
Outcome == IF pc = "error" THEN Raised ELSE result

FrameOutcome(f) ==
    IF f.status = "err" THEN Raised ELSE ListResult(f.temp_new_chunk_list)

\* the stripped, space-joined sentences a..b of the input
JoinRange(a, b) == strip(join(SubSeq(sent_list, a, b)))

Words(a, b) == Len(split(join(SubSeq(sent_list, a, b))))

Tokens(a, b) == tokenize(tokenizer, JoinRange(a, b))

InChunk(p, c) == c.lo <= p /\ p <= c.hi

\* C1: every chunk the sequential tokenizer-budget strategy emits has a token
\* count of at most token_seq_length.
C1_ChunksWithinTokenBudget ==
    Sequential(TOKEN) =>
        \A k \in 1..Len(Run.temp_new_chunk_list) :
            tokenize(tokenizer, Run.temp_new_chunk_list[k]) <= token_seq_length

\* C2: the parallel strategy works on cpu_count contiguous slices, in the
\* original order, whose sizes differ by at most one, and returns the
\* concatenation in slice order of what the sequential strategy returns for
\* each slice, whatever the order in which the workers finish.
C2_ParallelIsConcatenationOfSlices ==
    (method = PARALLEL /\ pc # "idle") =>
        /\ Len(frames) = cpu_count
        /\ concatenate([k \in 1..Len(frames) |-> frames[k].sents]) = sent_list
        /\ \A j, k \in 1..Len(frames) :
               Len(frames[j].sents) - Len(frames[k].sents) <= 1
        /\ pc = "done" =>
               result = ListResult(concatenate(
                   [k \in 1..Len(frames) |->
                       prev_chunk_based_on_token_seq_len(
                           frames[k].sents, frames[k].off).temp_new_chunk_list]))

\* two workers emitting different chunks, the second returning first
C2_Witness ==
    /\ method = PARALLEL
    /\ pc = "done"
    /\ finished = <<2, 1>>
    /\ \A k \in 1..2 : Len(frames[k].temp_new_chunk_list) > 0
    /\ frames[1].temp_new_chunk_list # frames[2].temp_new_chunk_list

\* C3 as stated: the parallel strategy returns what the sequential strategy
\* returns for the whole input.
C3_ParallelEqualsSequential ==
    (method = PARALLEL /\ pc = "done") =>
        result = FrameOutcome(prev_chunk_based_on_token_seq_len(sent_list, 0))

\* C3 as amended: with a single worker (cpu_count = 1) the parallel strategy
\* returns what the sequential strategy returns for the whole input.
C3_SingleWorkerEqualsSequential ==
    (method = PARALLEL /\ pc \in {"done", "error"} /\ cpu_count = 1) =>
        Outcome = FrameOutcome(prev_chunk_based_on_token_seq_len(sent_list, 0))

C3_Witness ==
    /\ method = PARALLEL
    /\ pc = "done"
    /\ cpu_count = 1
    /\ Len(result.val) > 1

\* C4: in a sequential run of either strategy no input position lies in
\* more than one emitted chunk.
C4_NoSentenceInTwoChunks ==
    (Sequential(WORD) \/ Sequential(TOKEN)) =>
        \A j, k \in 1..Len(Run.prov) :
            j # k => ~\E p \in 1..Len(sent_list) :
                        InChunk(p, Run.prov[j]) /\ InChunk(p, Run.prov[k])

RECURSIVE Offset(_, _)
\* where sentence k starts in the space-joined list, counted from 0
Offset(l, k) == IF k = 1 THEN 0 ELSE Offset(l, k - 1) + Len(l[k - 1]) + 1

\* s is the sentences of l in order with exactly one space between neighbours
IsSpaceJoin(s, l) ==
    /\ Len(s) = IF l = <<>> THEN 0 ELSE Offset(l, Len(l)) + Len(l[Len(l)])
    /\ \A k \in 1..Len(l) :
           /\ SubSeq(s, Offset(l, k) + 1, Offset(l, k) + Len(l[k])) = l[k]
           /\ k < Len(l) => s[Offset(l, k) + Len(l[k]) + 1] = " "

\* the parallel strategy as a function of its argument
ParallelOutcome(l) ==
    LET fs == [k \in 1..cpu_count |->
                  RunToken(Slices(l, cpu_count)[k], token_seq_length, tokenizer)]
    IN  IF \E k \in 1..cpu_count : fs[k].status = "err"
        THEN Raised
        ELSE ListResult(concatenate(
                 [k \in 1..cpu_count |-> fs[k].temp_new_chunk_list]))

\* C5: chunker_function_ returns the space-joined string for fewer than 10
\* sentences; otherwise the word-count strategy's result when seq_length is
\* set, else the parallel or the sequential tokenizer-budget strategy's
\* result as parallelize says.
C5_Dispatch ==
    (called = "chunker_function_" /\ pc \in {"done", "error"}) =>
        IF Len(sent_list) < 10
        THEN /\ method = FALLBACK
             /\ result.kind = "str"
             /\ IsSpaceJoin(result.val, sent_list)
        ELSE IF seq_length # None
        THEN /\ method = WORD
             /\ Outcome = FrameOutcome(chunk_based_on_seq_len(sent_list))
        ELSE IF parallelize
        THEN /\ method = PARALLEL
             /\ Outcome = ParallelOutcome(sent_list)
        ELSE /\ method = TOKEN
             /\ Outcome = FrameOutcome(prev_chunk_based_on_token_seq_len(sent_list, 0))

\* ten sentences dispatched to the parallel strategy, which emitted chunks
C5_Witness ==
    /\ called = "chunker_function_"
    /\ pc = "done"
    /\ Len(sent_list) = 10
    /\ method = PARALLEL
    /\ Len(result.val) > 0

\* C6: a chunk of the word-count strategy has more than seq_length words,
\* and at most seq_length without its last sentence.
C6_WordCountChunkBound ==
    Sequential(WORD) =>
        \A k \in 1..Len(Run.temp_new_chunk_list) :
            LET c == Run.prov[k] IN
            /\ Run.temp_new_chunk_list[k] = JoinRange(c.lo, c.hi)
            /\ Len(split(Run.temp_new_chunk_list[k])) > seq_length
            /\ Words(c.lo, c.hi - 1) <= seq_length

\* a chunk of several sentences was emitted
C6_Witness ==
    /\ Sequential(WORD)
    /\ \E k \in 1..Len(Run.prov) : Run.prov[k].hi > Run.prov[k].lo

\* the running concatenation never exceeds the budget
NeverOverBudget ==
    \A n \in 1..Len(sent_list) :
        IF method = WORD THEN Words(1, n) <= seq_length
        ELSE Tokens(1, n) <= token_seq_length

\* C7: a sequential strategy whose running concatenation never exceeds the
\* budget returns no chunk; in general no chunk holds a sentence past the
\* last emission, and one chunk is returned per emission.
C7_TrailingDiscard ==
    ((Sequential(WORD) \/ Sequential(TOKEN)) /\ pc = "done") =>
        /\ NeverOverBudget => result = ListResult(<<>>)
        /\ Len(result.val) = Len(Run.prov)
        /\ \A k \in 1..Len(Run.prov) :
               \A p \in 1..Len(sent_list) :
                   p > Run.prov[Len(Run.prov)].trig => ~InChunk(p, Run.prov[k])

\* every sentence was accumulated, none was returned
C7_Witness ==
    /\ Sequential(TOKEN)
    /\ pc = "done"
    /\ Len(sent_list) = MaxLen
    /\ Len(split(Run.temp_sent)) >= 2
    /\ result = ListResult(<<>>)

\* C8: Pass A applied to its own output returns it unchanged, and so does
\* Pass B.
C8_PassesIdempotent ==
    (Len(f_last) >= 2 /\ f_last[1] = f_last[2] /\ f_last[1] \in {"A", "B"}) =>
        f_list = f_prev

\* Pass A ran twice; the first run dropped a sentence and kept another
C8_Witness ==
    /\ f_last = <<"A", "A">>
    /\ Len(f_list) > 0
    /\ Len(f_list) < Len(f_input)

\* C9: at an overflow the tokenizer-budget strategy emits the accumulator as
\* it was before the overflowing sentence: the stripped space-joined
\* sentences since the previous reset without that sentence, which is in no
\* chunk.
C9_LookbackEmitsAccumulatorBefore ==
    Sequential(TOKEN) =>
        \A k \in 1..Len(Run.temp_new_chunk_list) :
            LET trig == Run.prov[k].trig
                from == IF k = 1 THEN 1 ELSE Run.prov[k - 1].trig + 1
            IN  /\ Run.temp_new_chunk_list[k] = JoinRange(from, trig - 1)
                /\ \A j \in 1..Len(Run.prov) : ~InChunk(trig, Run.prov[j])

\* C10: the tokenizer-budget strategy never raises: the history holds two
\* snapshots at every overflow.
C10_RunsToCompletion ==
    Sequential(TOKEN) => (pc # "error" /\ Run.status # "err")

====
